---- MODULE Spec2Model ----
(***************************************************************************)
(* Model of src/main.py: the Sheet Merger (merge_excel_sheets), the Field  *)
(* Reconciler (process_tags), the Date Prompt (get_user_date_input) and    *)
(* the CSV Exporter (export_to_csv) with its cover-fetch worker pool.      *)
(*                                                                         *)
(* TLA+ strings are ASCII, so the Chinese names of the source are written  *)
(* in pinyin:                                                              *)
(*   worksheets  KanGuo/ZaiKan/XiangKan     = 看过/在看/想看               *)
(*               TingGuo/ZaiTing/XiangTing  = 听过/在听/想听               *)
(*               WanGuo/ZaiWan/XiangWan     = 玩过/在玩/想玩               *)
(*               DuGuo/ZaiDu/XiangDu        = 读过/在读/想读               *)
(*   columns     LianJie = 链接, BiaoQian = 标签, DoubanPingFen = 豆瓣评分,*)
(*               JianJie = 简介, NeoDBLianJie = NeoDB链接,                 *)
(*               ChuangJianShiJian = 创建时间, FengMian = 封面             *)
(*                                                                         *)
(* A DataFrame is a record [cols, rows]: cols the set of column names,     *)
(* rows a sequence of functions cols -> cell.  A workbook (an .xlsx file,  *)
(* or the dict read_excel(sheet_name=None) returns) is a function from the *)
(* names of its worksheets to DataFrames.  A text (a str of the program: a *)
(* cell, a line typed at the prompt) is the sequence of its code points;   *)
(* the Status cells the merger adds are the worksheets' names.             *)
(***************************************************************************)
EXTENDS Integers, Sequences, FiniteSets, TLC

VARIABLES
    sheets,        \* merge_excel_sheets: the worksheets read from input_file
    merge_pc,      \* merge_excel_sheets: "start", "done"
    merge_out,     \* merge_excel_sheets: the workbook written to output_file
    douban_file,   \* z1.xlsx, the primary merged workbook
    neodb_file,    \* mark.xlsx, the secondary merged workbook
    tags_pc,       \* process_tags: "start", "done", "raised"
    updated_file,  \* mark_updated.xlsx, written by process_tags
    rerun_pc,      \* a second process_tags over its own output: "start", "done", "raised"
    rerun_file,    \* the workbook the second process_tags writes
    now,           \* datetime.datetime.now() at the prompt: [year, month, day]
    date_input,    \* the line input() returned last, a sequence of characters
    date_pc,       \* get_user_date_input: "prompt" (in the loop), "returned"
    date_obj,      \* the datetime returned: [year, month, day], at midnight
    split_sheet,   \* split_intro: the category whose rows are split
    intro_parts,   \* split_intro: the parts the description was written from
    intro,         \* split_intro: the cell of the description column
    split_pc,      \* split_intro: "start", "done"
    split_cols,    \* split_intro: the list returned, or the exception
    responses,     \* cover batch: for each url, what its HTTP GET meets
    futures,       \* cover batch: the futures, in submission order
    finish_order,  \* cover batch: the futures' indices in the order they completed
    cover_links,   \* cover batch: the list cover_links, as far as it is built
    fetch_pc,      \* cover batch: "submit", "collect", "returned", "raising", "raised"
    export_pc,     \* export_to_csv: "loop" (over the categories), "returned"
    export_idx,    \* export_to_csv: the place in MERGE_GROUPS.keys() of the next sheet
    csv_files,     \* the zout_final_<sheet>.csv files written, by sheet
    export_log     \* export_to_csv: what was printed at the end of each turn

mergeVars == <<sheets, merge_pc, merge_out>>
tagsVars == <<douban_file, neodb_file, tags_pc, updated_file, rerun_pc, rerun_file>>

dateVars == <<now, date_input, date_pc, date_obj>>

splitVars == <<split_sheet, intro_parts, intro, split_pc, split_cols>>
fetchVars == <<responses, futures, finish_order, cover_links, fetch_pc>>

exportVars == <<export_pc, export_idx, csv_files, export_log>>

vars == <<mergeVars, tagsVars, dateVars, splitVars, fetchVars, exportVars>>

(***************************************************************************)
(* Cells, DataFrames                                                       *)
(***************************************************************************)

\* pandas' missing value (NaN / None) of a cell: not a text
NaN == <<-1>>

\* isinstance(s, str)
IsStr(v) == v # NaN

\* the texts the inputs are made of
U1 == <<117, 49>>                  \* "u1"
U2 == <<117, 50>>                  \* "u2"
U3 == <<117, 51>>                  \* "u3"
T1 == <<116, 49>>                  \* "t1"
T2 == <<116, 50>>                  \* "t2"
Old == <<111, 108, 100>>           \* "old"
Score == <<56>>                    \* "8"
N1 == <<110, 49>>                  \* "n1"
N2 == <<110, 50>>                  \* "n2"
N3 == <<110, 51>>                  \* "n3"
N4 == <<110, 52>>                  \* "n4"
AB == <<97, 32, 47, 32, 98>>       \* "a / b"
CC == <<99>>                       \* "c"

\* a file that does not exist (yet)
NoFile == [nofile |-> TRUE]

\* pd.DataFrame(): no columns, no rows
EmptyFrame == [cols |-> {}, rows |-> <<>>]

\* DataFrame.empty: some axis has length 0
IsEmpty(df) == df.cols = {} \/ Len(df.rows) = 0

\* the cell of row r in column c of a frame whose columns may not include c
\* (pd.concat fills the columns a frame lacks with NaN)
CellOr(r, c) == IF c \in DOMAIN r THEN r[c] ELSE NaN

(***************************************************************************)
(* Sheet Merger                                                            *)
(***************************************************************************)

MERGE_GROUPS ==
    [KanGuo  |-> <<"KanGuo", "ZaiKan", "XiangKan">>,
     TingGuo |-> <<"TingGuo", "ZaiTing", "XiangTing">>,
     WanGuo  |-> <<"WanGuo", "ZaiWan", "XiangWan">>,
     DuGuo   |-> <<"DuGuo", "ZaiDu", "XiangDu">>]

\* MERGE_GROUPS.keys(), in the dict's insertion order
Categories == <<"KanGuo", "TingGuo", "WanGuo", "DuGuo">>

\* WithStatus with a slip: a Status column the worksheet already has is kept
WithStatusKept(data, name) ==
    [cols |-> data.cols \cup {"Status"},
     rows |-> [i \in 1..Len(data.rows) |->
                 [c \in data.cols \cup {"Status"} |->
                     IF c \in data.cols THEN data.rows[i][c] ELSE name]]]

\* data = data.copy(); data["Status"] = name
WithStatus(data, name) ==
    [cols |-> data.cols \cup {"Status"},
     rows |-> [i \in 1..Len(data.rows) |->
                 [c \in data.cols \cup {"Status"} |->
                     IF c = "Status" THEN name ELSE data.rows[i][c]]]]

\* modified[name] for every worksheet of the input
Modified(wb) == [name \in DOMAIN wb |-> WithStatus(wb[name], name)]

\* [modified[name] for name in sheets_to_merge if name in modified]
RECURSIVE PresentFrames(_, _)
PresentFrames(names, modified) ==
    IF names = <<>> THEN <<>>
    ELSE (IF Head(names) \in DOMAIN modified
             THEN <<modified[Head(names)]>> ELSE <<>>)
         \o PresentFrames(Tail(names), modified)

\* pd.concat(dfs, ignore_index=True): the rows stacked in list order over the
\* union of the columns
RECURSIVE ConcatCols(_)
ConcatCols(dfs) ==
    IF dfs = <<>> THEN {} ELSE Head(dfs).cols \cup ConcatCols(Tail(dfs))

RECURSIVE ConcatRows(_, _)
ConcatRows(dfs, cols) ==
    IF dfs = <<>> THEN <<>>
    ELSE [i \in 1..Len(Head(dfs).rows) |->
             [c \in cols |-> CellOr(Head(dfs).rows[i], c)]]
         \o ConcatRows(Tail(dfs), cols)

Concat(dfs) == [cols |-> ConcatCols(dfs), rows |-> ConcatRows(dfs, ConcatCols(dfs))]

\* the dict `combined`: one frame per group that has a worksheet in the input
Combined(wb) ==
    LET modified == Modified(wb)
        groups == {g \in DOMAIN MERGE_GROUPS :
                      PresentFrames(MERGE_GROUPS[g], modified) # <<>>}
    IN  [g \in groups |-> Concat(PresentFrames(MERGE_GROUPS[g], modified))]

\* ---- inputs of the merger ----

\* most rows a worksheet of the merger's input has
MaxSheetRows == 2

\* the worksheets the input file may hold: all of one group (listed out of
\* the group's order), one of another group, and one that is in no group
SheetNames == {"XiangKan", "KanGuo", "ZaiKan", "DuGuo", "QiTa"}

\* a worksheet of n rows whose cells name the worksheet and the row, with or
\* without a column that is already called Status
SheetLetter(name) ==
    CASE name = "KanGuo" -> 75 [] name = "ZaiKan" -> 90 [] name = "XiangKan" -> 88
      [] name = "DuGuo" -> 68 [] name = "QiTa" -> 81

\* the text that names row i of worksheet `name`
RowTag(name, i) == <<SheetLetter(name), 48 + i>>

SheetOf(name, n, stale) ==
    [cols |-> IF stale THEN {"LianJie", "Status"} ELSE {"LianJie"},
     rows |-> [i \in 1..n |->
                 [c \in (IF stale THEN {"LianJie", "Status"} ELSE {"LianJie"}) |->
                     IF c = "LianJie" THEN RowTag(name, i) ELSE "old"]]]

MergeInputs ==
    UNION {
      { wb \in [present -> (0..MaxSheetRows) \X BOOLEAN] : TRUE }
      : present \in SUBSET SheetNames }

MergeIdle == sheets = <<>> /\ merge_pc = "idle" /\ merge_out = NoFile

MergeInit ==
    /\ \E pick \in MergeInputs :
          sheets = [name \in DOMAIN pick |-> SheetOf(name, pick[name][1], pick[name][2])]
    /\ merge_pc = "start"
    /\ merge_out = NoFile

\* merge_excel_sheets(input_file, output_file)
MergeExcelSheets ==
    /\ merge_pc = "start"
    /\ merge_out' = Combined(sheets)
    /\ merge_pc' = "done"
    /\ UNCHANGED sheets


(***************************************************************************)
(* Field Reconciler                                                        *)
(***************************************************************************)

\* the transferable fields: the keys of COLUMN_MAPPINGS, in insertion order
\* (source and target name of every mapping are the key itself)
COLUMN_MAPPINGS == <<"BiaoQian", "DoubanPingFen", "JianJie", "NeoDBLianJie">>

\* what a call that may raise ends with: the value it returns, or an
\* exception
Return(v) == [raised |-> FALSE, value |-> v]
Raise == [raised |-> TRUE, value |-> <<>>]

\* a cell as pd.read_excel returns it: an empty cell is NaN, and so is the
\* text "nan" (one of read_excel's default na_values)
ReadCell(v) == IF v = <<110, 97, 110>> THEN NaN ELSE v

\* pd.read_excel of one worksheet
ReadSheet(df) ==
    [cols |-> df.cols,
     rows |-> [i \in 1..Len(df.rows) |-> [c \in df.cols |-> ReadCell(df.rows[i][c])]]]

\* str(v) of a cell, as astype(str) applies it
Str(v) == IF v = NaN THEN <<110, 97, 110>> ELSE v

\* load_douban_data: read_excel(file_path, sheet_name=sheet) for every
\* category; a worksheet that is not in the file raises ValueError
LoadDoubanData(file) ==
    IF \A i \in 1..Len(Categories) : Categories[i] \in DOMAIN file
    THEN Return([c \in {Categories[i] : i \in 1..Len(Categories)} |-> ReadSheet(file[c])])
    ELSE Raise

\* load_neodb_data: read_excel(file_path, sheet_name=None), every worksheet
LoadNeodbData(file) == [s \in DOMAIN file |-> ReadSheet(file[s])]

\* d.get(category, pd.DataFrame())
GetOrEmpty(d, category) == IF category \in DOMAIN d THEN d[category] ELSE EmptyFrame

\* safe_column_cast(df, col, str)
SafeColumnCast(df, col) ==
    IF col \in df.cols
    THEN [cols |-> df.cols,
          rows |-> [i \in 1..Len(df.rows) |->
                      [c \in df.cols |->
                          IF c = col THEN Str(df.rows[i][c]) ELSE df.rows[i][c]]]]
    ELSE df

\* ToDict with a slip: the first row of a key stays
RECURSIVE ToDictFirst(_, _, _)
ToDictFirst(rows, key_col, source_col) ==
    IF rows = <<>> THEN <<>>
    ELSE LET n == Len(rows)
             d == ToDictFirst(SubSeq(rows, 1, n - 1), key_col, source_col)
             k == rows[n][key_col]
         IN  [x \in DOMAIN d \cup {k} |-> IF x \in DOMAIN d THEN d[x] ELSE rows[n][source_col]]

\* source_df.set_index(key_col)[source_col].to_dict(): the rows are entered
\* in order, a later row replacing an earlier one of the same key
RECURSIVE ToDict(_, _, _)
ToDict(rows, key_col, source_col) ==
    IF rows = <<>> THEN <<>>
    ELSE LET n == Len(rows)
             d == ToDict(SubSeq(rows, 1, n - 1), key_col, source_col)
             k == rows[n][key_col]
         IN  [x \in DOMAIN d \cup {k} |-> IF x = k THEN rows[n][source_col] ELSE d[x]]

\* Series.map(mapping) of one cell: a key the dict lacks gives NaN
MapCell(mapping, k) == IF k \in DOMAIN mapping THEN mapping[k] ELSE NaN

\* update_column(target_df, source_df, key_col, source_col, target_col):
\* target_df as it is afterwards, or the KeyError of a key_col that is not a
\* column of source_df or of target_df
UpdateColumn(target_df, source_df, key_col, source_col, target_col) ==
    IF source_col \notin source_df.cols THEN Return(target_df)
    ELSE IF key_col \notin source_df.cols \/ key_col \notin target_df.cols THEN Raise
    ELSE LET mapping == ToDict(source_df.rows, key_col, source_col)
         IN  Return([cols |-> target_df.cols \cup {target_col},
                     rows |-> [i \in 1..Len(target_df.rows) |->
                                 [c \in target_df.cols \cup {target_col} |->
                                     IF c = target_col
                                     THEN MapCell(mapping, target_df.rows[i][key_col])
                                     ELSE target_df.rows[i][c]]]])

\* the loop of process_category over COLUMN_MAPPINGS, from df_z on
RECURSIVE UpdateColumns(_, _, _)
UpdateColumns(df_z, df_mark, cols) ==
    IF cols = <<>> THEN Return(df_z)
    ELSE LET res == IF Head(cols) \in df_mark.cols
                    THEN UpdateColumn(df_z, df_mark, "LianJie", Head(cols), Head(cols))
                    ELSE Return(df_z)
         IN  IF res.raised THEN Raise
             ELSE UpdateColumns(res.value, df_mark, Tail(cols))

\* what process_category gives the writer: a worksheet, or nothing
Sheet(df) == [written |-> TRUE, df |-> df]
NoSheet == [written |-> FALSE, df |-> EmptyFrame]

\* process_category: the frame written to the writer as worksheet `category`,
\* or NoSheet (an empty table: return; an exception: caught and printed)
ProcessCategory(category, douban, neodb) ==
    LET df_mark0 == GetOrEmpty(neodb, category)
        df_z0 == GetOrEmpty(douban, category)
    IN  IF IsEmpty(df_mark0) \/ IsEmpty(df_z0) THEN NoSheet
        ELSE LET df_mark == SafeColumnCast(df_mark0, "LianJie")
                 df_z == SafeColumnCast(df_z0, "LianJie")
                 res == UpdateColumns(df_z, df_mark, COLUMN_MAPPINGS)
             IN  IF res.raised THEN NoSheet ELSE Sheet(res.value)

\* process_tags(neodb_file, douban_file, output_file): the workbook written,
\* or the exception of a load (the writer is not yet open: no file)
ProcessTagsResult(neodb, douban) ==
    LET douban_data == LoadDoubanData(douban)
        neodb_data == LoadNeodbData(neodb)
    IN  IF douban_data.raised THEN Raise
        ELSE LET written == {Categories[i] : i \in
                     {j \in 1..Len(Categories) :
                         ProcessCategory(Categories[j], douban_data.value,
                                         neodb_data).written}}
             IN  Return([c \in written |->
                           ProcessCategory(c, douban_data.value, neodb_data).df])

\* the ways process_tags can end: leaving the with block saves the workbook,
\* and a workbook no worksheet was written to is saved empty or refused with
\* an exception, depending on the Excel engine pandas finds installed
ProcessTagsOutcomes(neodb, douban) ==
    LET res == ProcessTagsResult(neodb, douban)
    IN  IF res.raised THEN {Raise}
        ELSE IF DOMAIN res.value = {} THEN {res, Raise}
        ELSE {res}

\* ---- inputs of the reconciler ----

\* most rows a worksheet of the detailed category has, in either workbook
MaxRows == 2

\* the cells of the key column, as read_excel returns them
Keys == {U1, U2, NaN}

\* every sequence of at most n elements of S
SeqsUpTo(S, n) == UNION {[1..m -> S] : m \in 0..n}

\* a worksheet absent from a workbook
Absent == [absent |-> TRUE]

\* primary worksheets of the detailed category: any keys, with or without a
\* BiaoQian column of its own
PrimaryRich ==
    {[cols |-> {"LianJie", "BiaoQian"}, rows |-> r] :
        r \in SeqsUpTo([LianJie : Keys, BiaoQian : {Old}], MaxRows)}
    \cup {[cols |-> {"LianJie"}, rows |-> r] :
        r \in SeqsUpTo([LianJie : Keys], MaxRows)}
    \cup {[cols |-> {"BiaoQian"}, rows |-> <<[BiaoQian |-> Old]>>]}

\* secondary worksheets of the detailed category: keys that repeat with
\* different values, a worksheet without the key column, one without any
\* transferable field, one with all of them
SecondaryRich ==
    {[cols |-> {"LianJie", "BiaoQian"}, rows |-> r] :
        r \in SeqsUpTo([LianJie : {U1, NaN}, BiaoQian : {T1, T2}], MaxRows)}
    \cup {[cols |-> {"BiaoQian"}, rows |-> <<[BiaoQian |-> T1]>>],
          [cols |-> {"LianJie"}, rows |-> <<[LianJie |-> U1]>>],
          [cols |-> {"LianJie", "BiaoQian", "DoubanPingFen", "JianJie", "NeoDBLianJie"},
           rows |-> <<[LianJie |-> U1, BiaoQian |-> T1, DoubanPingFen |-> NaN,
                       JianJie |-> AB, NeoDBLianJie |-> N1],
                      [LianJie |-> U1, BiaoQian |-> NaN, DoubanPingFen |-> Score,
                       JianJie |-> CC, NeoDBLianJie |-> N2]>>]}

\* the worksheets of the other categories
PrimaryPlain == [cols |-> {"LianJie"}, rows |-> <<[LianJie |-> U1], [LianJie |-> U3]>>]
SecondaryPlain ==
    [cols |-> {"LianJie", "BiaoQian"}, rows |-> <<[LianJie |-> U1, BiaoQian |-> T1]>>]
NoRows(df) == [cols |-> df.cols, rows |-> <<>>]

PrimaryChoices(c) ==
    CASE c = "DuGuo"   -> PrimaryRich \cup {Absent}
      [] c = "KanGuo"  -> {PrimaryPlain, Absent}
      [] c = "TingGuo" -> {PrimaryPlain}
      [] c = "WanGuo"  -> {PrimaryPlain, NoRows(PrimaryPlain)}

SecondaryChoices(c) ==
    CASE c = "DuGuo"   -> SecondaryRich \cup {Absent}
      [] c = "KanGuo"  -> {SecondaryPlain}
      [] c = "TingGuo" -> {SecondaryPlain, Absent}
      [] c = "WanGuo"  -> {SecondaryPlain}

CategorySet == {Categories[i] : i \in 1..Len(Categories)}

\* the workbook that holds the worksheets a choice does not leave out
Workbook(choice) == [c \in {x \in DOMAIN choice : choice[x] # Absent} |-> choice[c]]

TagsIdle ==
    /\ douban_file = NoFile /\ neodb_file = NoFile /\ tags_pc = "idle"
    /\ updated_file = NoFile /\ rerun_pc = "idle" /\ rerun_file = NoFile

TagsInit ==
    /\ \E p1 \in PrimaryChoices("KanGuo"), p2 \in PrimaryChoices("TingGuo"),
          p3 \in PrimaryChoices("WanGuo"), p4 \in PrimaryChoices("DuGuo") :
          douban_file = Workbook([KanGuo |-> p1, TingGuo |-> p2, WanGuo |-> p3, DuGuo |-> p4])
    /\ \E s1 \in SecondaryChoices("KanGuo"), s2 \in SecondaryChoices("TingGuo"),
          s3 \in SecondaryChoices("WanGuo"), s4 \in SecondaryChoices("DuGuo") :
          neodb_file = Workbook([KanGuo |-> s1, TingGuo |-> s2, WanGuo |-> s3, DuGuo |-> s4])
    /\ tags_pc = "start"
    /\ updated_file = NoFile
    /\ rerun_pc = "start"
    /\ rerun_file = NoFile

\* process_tags("mark.xlsx", "z1.xlsx", "mark_updated.xlsx")
ProcessTags ==
    /\ tags_pc = "start"
    /\ \E res \in ProcessTagsOutcomes(neodb_file, douban_file) :
           IF res.raised
           THEN tags_pc' = "raised" /\ updated_file' = NoFile
           ELSE tags_pc' = "done" /\ updated_file' = res.value
    /\ UNCHANGED <<douban_file, neodb_file, rerun_pc, rerun_file>>

\* process_tags again, the first run's output as the primary workbook and
\* the secondary workbook unchanged
ProcessTagsAgain ==
    /\ tags_pc = "done"
    /\ rerun_pc = "start"
    /\ \E res \in ProcessTagsOutcomes(neodb_file, updated_file) :
           IF res.raised
           THEN rerun_pc' = "raised" /\ rerun_file' = NoFile
           ELSE rerun_pc' = "done" /\ rerun_file' = res.value
    /\ UNCHANGED <<douban_file, neodb_file, tags_pc, updated_file>>

(***************************************************************************)
(* Date Prompt                                                             *)
(***************************************************************************)

\* the code points of "0" .. "9"
Digits == 48..57

DigitVal(ch) == ch - 48

\* str.isdigit() of a line
IsDigit(line) == Len(line) > 0 /\ \A i \in 1..Len(line) : line[i] \in Digits

\* int() of a string of decimal digits
RECURSIVE IntOf(_)
IntOf(line) ==
    IF line = <<>> THEN 0
    ELSE 10 * IntOf(SubSeq(line, 1, Len(line) - 1)) + DigitVal(line[Len(line)])

IsLeap(y) == (y % 4 = 0 /\ y % 100 # 0) \/ y % 400 = 0

DaysInMonth(y, m) ==
    CASE m \in {1, 3, 5, 7, 8, 10, 12} -> 31
      [] m \in {4, 6, 9, 11} -> 30
      [] m = 2 -> IF IsLeap(y) THEN 29 ELSE 28

\* whether datetime.datetime(y, m, d, 0, 0, 0) is a date (else ValueError)
ValidDate(y, m, d) ==
    /\ y \in 1..9999
    /\ m \in 1..12
    /\ d \in 1..DaysInMonth(y, m)

\* the loop goes round again
Retry == [retry |-> TRUE]

\* InferYear with a slip: >= for >
InferYearOffByOne(yy, current_year) ==
    LET century == (current_year \div 100) * 100
        year == century + yy
    IN  IF year >= current_year + 1 THEN year - 100 ELSE year

\* year = century + year; if year > current_year + 1: year -= 100
InferYear(yy, current_year) ==
    LET century == (current_year \div 100) * 100
        year == century + yy
    IN  IF year > current_year + 1 THEN year - 100 ELSE year

\* one turn of the loop of get_user_date_input on the line read: the date
\* returned, or Retry
DateOf(line, current_year) ==
    IF Len(line) # 6 \/ ~IsDigit(line) THEN Retry
    ELSE LET year == InferYear(IntOf(SubSeq(line, 1, 2)), current_year)
             month == IntOf(SubSeq(line, 3, 4))
             day == IntOf(SubSeq(line, 5, 6))
         IN  IF ValidDate(year, month, day)
             THEN [year |-> year, month |-> month, day |-> day]
             ELSE Retry

\* ---- inputs of the prompt ----

\* the days the program is run on
Todays ==
    {[year |-> y, month |-> md[1], day |-> md[2]] :
        y \in {1999, 2000, 2022, 2026, 2027, 2099},
        md \in {<<1, 1>>, <<11, 3>>, <<12, 31>>}}

\* the two digits of a number below 100, as text
TwoDigits(n) == <<48 + (n \div 10), 48 + (n % 10)>>

YYs == {TwoDigits(n) : n \in {0, 1, 23, 24, 27, 28, 99}}
MMs == {TwoDigits(n) : n \in {0, 1, 2, 10, 12, 13}}
DDs == {TwoDigits(n) : n \in {0, 1, 26, 29, 30, 31}}

\* the lines the operator types: six digits, and lines that are not
Lines ==
    {yy \o mm \o dd : yy \in YYs, mm \in MMs, dd \in DDs}
    \cup {<<>>,
          <<50, 51, 49, 48, 50>>,             \* "23102"
          <<50, 51, 49, 48, 50, 54, 48>>,     \* "2310260"
          <<50, 51, 49, 48, 50, 120>>,        \* "23102x"
          <<50, 51, 45, 49, 48, 50>>}         \* "23-102"

NoDate == [nodate |-> TRUE]

DateIdle ==
    /\ now = [year |-> 0, month |-> 0, day |-> 0] /\ date_input = <<>>
    /\ date_pc = "idle" /\ date_obj = NoDate

DateInit ==
    /\ now \in Todays
    /\ date_input = <<>>
    /\ date_pc = "prompt"
    /\ date_obj = NoDate

\* one turn of the while loop: read a line (one of `lines`), return its
\* date or go round
GetUserDateInput(lines) ==
    /\ date_pc = "prompt"
    /\ \E line \in lines :
          /\ date_input' = line
          /\ LET res == DateOf(line, now.year)
             IN  IF res = Retry
                 THEN date_pc' = "prompt" /\ date_obj' = NoDate
                 ELSE date_pc' = "returned" /\ date_obj' = res
    /\ UNCHANGED now

(***************************************************************************)
(* CSV Exporter: split_intro                                               *)
(***************************************************************************)

\* " / "
Sep == <<32, 47, 32>>

\* str.find(sep, i): the first place at or after i where sep starts, 0 if none
RECURSIVE Find(_, _, _)
Find(text, sep, i) ==
    IF i + Len(sep) - 1 > Len(text) THEN 0
    ELSE IF SubSeq(text, i, i + Len(sep) - 1) = sep THEN i
    ELSE Find(text, sep, i + 1)

\* str.split(sep)
RECURSIVE Split(_, _)
Split(text, sep) ==
    LET i == Find(text, sep, 1)
    IN  IF i = 0 THEN <<text>>
        ELSE <<SubSeq(text, 1, i - 1)>>
             \o Split(SubSeq(text, i + Len(sep), Len(text)), sep)

\* SplitIntro with a slip: the list is not cut to `parts`
SplitIntroUncut(cell, parts) ==
    IF ~IsStr(cell) THEN Raise
    ELSE Return(Split(cell, Sep) \o [i \in 1..(parts - 1) |-> NaN])

\* split_intro(intro, parts): (intro.split(" / ") + [None] * (parts - 1))[:parts];
\* a cell that is not a str has no split (AttributeError)
SplitIntro(cell, parts) ==
    IF ~IsStr(cell) THEN Raise
    ELSE Return(SubSeq(Split(cell, Sep) \o [i \in 1..(parts - 1) |-> NaN], 1, parts))

\* the columns the description of a category is split into
\* (BiaoYanZhe = 表演者, FaXingShiJian = 发行时间, ZuoZhe = 作者,
\*  ChuBanRiQi = 出版日期, ChuBanShe = 出版社, LeiXing = 类型, PingTai = 平台,
\*  NianDai = 年代, ZhiPianGuoJiaDiQu = 制片国家/地区, DaoYan = 导演, YanYuan = 演员)
IntroColumns(sheet) ==
    CASE sheet = "TingGuo" -> <<"BiaoYanZhe", "FaXingShiJian">>
      [] sheet = "DuGuo"   -> <<"ZuoZhe", "ChuBanRiQi", "ChuBanShe">>
      [] sheet = "WanGuo"  -> <<"LeiXing", "PingTai", "FaXingShiJian">>
      [] sheet = "KanGuo"  -> <<"NianDai", "ZhiPianGuoJiaDiQu", "LeiXing", "DaoYan", "YanYuan">>

\* ---- inputs of split_intro ----

\* most parts a description is written from
MaxParts == 6

\* the parts: "", "a", "b c"
PartTexts == {<<>>, <<97>>, <<98, 32, 99>>}

\* sep.join(parts)
RECURSIVE Join(_, _)
Join(parts, sep) ==
    IF Len(parts) = 0 THEN <<>>
    ELSE IF Len(parts) = 1 THEN parts[1]
    ELSE parts[1] \o sep \o Join(Tail(parts), sep)

NoResult == [noresult |-> TRUE]

SplitIdle ==
    /\ split_sheet = "" /\ intro_parts = <<>> /\ intro = NaN
    /\ split_pc = "idle" /\ split_cols = NoResult

\* a description of one to MaxParts parts, or an empty cell
SplitInit ==
    /\ split_sheet \in CategorySet
    /\ intro_parts \in SeqsUpTo(PartTexts, MaxParts)
    /\ intro = IF intro_parts = <<>> THEN NaN ELSE Join(intro_parts, Sep)
    /\ split_pc = "start"
    /\ split_cols = NoResult

\* df["简介"].apply(lambda x: split_intro(x, n)) on one row of the category
SplitIntroRow ==
    /\ split_pc = "start"
    /\ split_cols' = SplitIntro(intro, Len(IntroColumns(split_sheet)))
    /\ split_pc' = "done"
    /\ UNCHANGED <<split_sheet, intro_parts, intro>>

(***************************************************************************)
(* CSV Exporter: the cover fetch                                           *)
(***************************************************************************)

\* "https://neodb.social"
Origin == <<104, 116, 116, 112, 115, 58, 47, 47, 110, 101, 111, 100, 98, 46,
            115, 111, 99, 105, 97, 108>>

\* "/c.jpg", "http://x/c.jpg"
RelSrc == <<47, 99, 46, 106, 112, 103>>
AbsSrc == <<104, 116, 116, 112, 58, 47, 47, 120, 47, 99, 46, 106, 112, 103>>

\* what a GET of a row's link meets:
\*   error      requests.get raises (connection error, invalid URL)
\*   timeout    requests.get raises Timeout after 10 s
\*   status     a response whose raise_for_status() raises HTTPError
\*   unparsable a response etree.HTML makes no tree of
\*   nocover    a page with no img under id "item-cover"
\*   img        a page with one; src is its attribute, NaN when it has none
Response(kind, src) == [kind |-> kind, src |-> src]
NetError == Response("error", NaN)
TimedOut == Response("timeout", NaN)
BadStatus == Response("status", NaN)
Unparsable == Response("unparsable", NaN)
NoCoverPage == Response("nocover", NaN)
NoSrcPage == Response("img", NaN)
CoverPage == Response("img", RelSrc)
AbsCoverPage == Response("img", AbsSrc)
EmptySrcPage == Response("img", <<>>)

Responses == {NetError, TimedOut, BadStatus, Unparsable, NoCoverPage, NoSrcPage,
              CoverPage, AbsCoverPage, EmptySrcPage}

\* cover_src.startswith("/")
StartsWithSlash(text) == Len(text) > 0 /\ text[1] = 47

\* get_cover_link_from_html(url): the link or NaN (None) returned, or the
\* exception that is no requests.RequestException and so leaves the function
GetCoverLinkFromHtml(resp) ==
    CASE resp.kind \in {"error", "timeout", "status"} -> Return(NaN)
      [] resp.kind = "unparsable" -> Raise
      [] resp.kind = "nocover" -> Return(NaN)
      [] resp.kind = "img" ->
            IF ~IsStr(resp.src) THEN Raise
            ELSE IF StartsWithSlash(resp.src) THEN Return(Origin \o resp.src)
            ELSE Return(resp.src)

\* ThreadPoolExecutor(max_workers=10)
max_workers == 10

\* a future: pending in the work queue, running on a worker, or finished
\* with what the call returned or raised
Future(state, outcome) == [state |-> state, outcome |-> outcome]

Running(fs) == {i \in 1..Len(fs) : fs[i].state = "running"}

\* FutureToCollect with a slip: the futures are taken as they complete
FutureAsCompleted(k, order) == IF k <= Len(order) THEN order[k] ELSE 0

\* the future whose result() the k-th turn of
\* [future.result() for future in futures] waits for
FutureToCollect(k, order) == k

\* process_urls_multithreaded(urls) as its caller sees it: the exception of
\* a call that raises, else what the calls return, in the order of urls
RECURSIVE CoverLinks(_)
CoverLinks(resps) ==
    IF resps = <<>> THEN Return(<<>>)
    ELSE LET first == GetCoverLinkFromHtml(Head(resps))
             rest == CoverLinks(Tail(resps))
         IN  IF first.raised \/ rest.raised THEN Raise
             ELSE Return(<<first.value>> \o rest.value)

\* ---- inputs of the batch ----

\* most urls a batch has
MaxUrls == 3

BatchResponses == {CoverPage, NetError, NoCoverPage, NoSrcPage}

\* the batches: up to MaxUrls urls of these four kinds, and one url of any kind
Batches == SeqsUpTo(BatchResponses, MaxUrls) \cup {<<r>> : r \in Responses}

FetchIdle ==
    /\ responses = <<>> /\ futures = <<>> /\ finish_order = <<>>
    /\ cover_links = <<>> /\ fetch_pc = "idle"

FetchInit ==
    /\ responses \in Batches
    /\ futures = <<>>
    /\ finish_order = <<>>
    /\ cover_links = <<>>
    /\ fetch_pc = "submit"

\* executor.submit(get_cover_link_from_html, url), the next url of the list
Submit ==
    /\ fetch_pc = "submit"
    /\ Len(futures) < Len(responses)
    /\ futures' = Append(futures, Future("pending", Return(NaN)))
    /\ UNCHANGED <<responses, finish_order, cover_links, fetch_pc>>

\* the list of futures is complete: the second comprehension begins
AllSubmitted ==
    /\ fetch_pc = "submit"
    /\ Len(futures) = Len(responses)
    /\ fetch_pc' = "collect"
    /\ UNCHANGED <<responses, futures, finish_order, cover_links>>

\* an idle worker takes the oldest call of the work queue
WorkerStart(i) ==
    /\ fetch_pc \in {"submit", "collect", "raising"}
    /\ i \in 1..Len(futures)
    /\ futures[i].state = "pending"
    /\ \A j \in 1..(i - 1) : futures[j].state # "pending"
    /\ Cardinality(Running(futures)) < max_workers
    /\ futures' = [futures EXCEPT ![i] = Future("running", Return(NaN))]
    /\ UNCHANGED <<responses, finish_order, cover_links, fetch_pc>>

\* a worker's call returns or raises
WorkerFinish(i) ==
    /\ i \in 1..Len(futures)
    /\ futures[i].state = "running"
    /\ futures' = [futures EXCEPT
                      ![i] = Future("finished", GetCoverLinkFromHtml(responses[i]))]
    /\ finish_order' = Append(finish_order, i)
    /\ UNCHANGED <<responses, cover_links, fetch_pc>>

\* future.result() of the next future: its value joins cover_links, its
\* exception is raised again in the caller
Collect ==
    /\ fetch_pc = "collect"
    /\ Len(cover_links) < Len(futures)
    /\ LET k == Len(cover_links) + 1
           i == FutureToCollect(k, finish_order)
       IN  /\ i \in 1..Len(futures)
           /\ futures[i].state = "finished"
           /\ IF futures[i].outcome.raised
              THEN fetch_pc' = "raising" /\ UNCHANGED cover_links
              ELSE cover_links' = Append(cover_links, futures[i].outcome.value)
                   /\ UNCHANGED fetch_pc
    /\ UNCHANGED <<responses, futures, finish_order>>

\* the with block is left (shutdown(wait=True)) and cover_links is returned
ReturnLinks ==
    /\ fetch_pc = "collect"
    /\ Len(cover_links) = Len(futures)
    /\ \A i \in 1..Len(futures) : futures[i].state = "finished"
    /\ fetch_pc' = "returned"
    /\ UNCHANGED <<responses, futures, finish_order, cover_links>>

\* the with block is left by the exception: shutdown(wait=True) lets the
\* calls that are left run, then the exception leaves the function
Reraise ==
    /\ fetch_pc = "raising"
    /\ \A i \in 1..Len(futures) : futures[i].state = "finished"
    /\ fetch_pc' = "raised"
    /\ UNCHANGED <<responses, futures, finish_order, cover_links>>

(***************************************************************************)
(* CSV Exporter: export_to_csv                                             *)
(***************************************************************************)

\* pd.to_datetime(text, format='%Y-%m-%d %H:%M:%S') of one cell: the
\* timestamp, or ValueError
ParseTime(text) ==
    IF /\ Len(text) = 19
       /\ \A i \in {1, 2, 3, 4, 6, 7, 9, 10, 12, 13, 15, 16, 18, 19} : text[i] \in Digits
       /\ text[5] = 45 /\ text[8] = 45 /\ text[11] = 32
       /\ text[14] = 58 /\ text[17] = 58
    THEN LET t == [year |-> IntOf(SubSeq(text, 1, 4)), month |-> IntOf(SubSeq(text, 6, 7)),
                   day |-> IntOf(SubSeq(text, 9, 10)), hour |-> IntOf(SubSeq(text, 12, 13)),
                   minute |-> IntOf(SubSeq(text, 15, 16)),
                   second |-> IntOf(SubSeq(text, 18, 19))]
         IN  IF ValidDate(t.year, t.month, t.day)
                /\ t.hour < 24 /\ t.minute < 60 /\ t.second < 62
             THEN Return(t) ELSE Raise
    ELSE Raise

\* timestamp >= user_date, user_date a date at midnight
NotBefore(t, user_date) ==
    \/ t.year > user_date.year
    \/ t.year = user_date.year /\ t.month > user_date.month
    \/ t.year = user_date.year /\ t.month = user_date.month /\ t.day >= user_date.day

\* lines 172-179: the rows created on or after user_date; every row when
\* there is no creation-time column or one of its cells does not parse
\* (an empty cell parses to NaT, which is not >= any date)
FilterByDate(df, user_date) ==
    IF "ChuangJianShiJian" \notin df.cols THEN df
    ELSE IF \E i \in 1..Len(df.rows) :
               /\ IsStr(df.rows[i].ChuangJianShiJian)
               /\ ParseTime(df.rows[i].ChuangJianShiJian).raised
         THEN df
    ELSE LET Keep(r) == /\ IsStr(r.ChuangJianShiJian)
                        /\ NotBefore(ParseTime(r.ChuangJianShiJian).value, user_date)
         IN  [cols |-> df.cols, rows |-> SelectSeq(df.rows, Keep)]

\* clean_string(s): ASCII and U+4E00..U+9FFF stay; what is no str is returned as it is
CleanString(v) ==
    IF IsStr(v)
    THEN LET Kept(ch) == ch \in 0..127 \/ ch \in 19968..40959
         IN  SelectSeq(v, Kept)
    ELSE v

\* lines 182-183
CleanFrame(df) ==
    [cols |-> df.cols,
     rows |-> [i \in 1..Len(df.rows) |-> [c \in df.cols |-> CleanString(df.rows[i][c])]]]

\* the place of name in a list of names
IndexOf(names, name) == CHOOSE i \in 1..Len(names) : names[i] = name

InList(names) == {names[i] : i \in 1..Len(names)}

\* lines 189-199 on a frame that has rows: the description split into the
\* category's columns and dropped; KeyError without a description column,
\* AttributeError for a description that is no str
SplitAndDrop(df, sheet) ==
    LET names == IntroColumns(sheet)
        cols == (df.cols \cup InList(names)) \ {"JianJie"}
    IN  IF "JianJie" \notin df.cols THEN Raise
        ELSE IF \E i \in 1..Len(df.rows) : SplitIntro(df.rows[i].JianJie, Len(names)).raised
        THEN Raise
        ELSE Return(
               [cols |-> cols,
                rows |-> [i \in 1..Len(df.rows) |->
                   [c \in cols |->
                      IF c \in InList(names)
                      THEN SplitIntro(df.rows[i].JianJie, Len(names)).value[IndexOf(names, c)]
                      ELSE df.rows[i][c]]]])

\* the page each link of the inputs leads to; a cell that is no str makes
\* requests.get raise (no scheme in "nan")
Web(url) ==
    IF ~IsStr(url) THEN NetError
    ELSE CASE url = N1 -> CoverPage
           [] url = N2 -> NetError
           [] url = N3 -> NoSrcPage
           [] url = N4 -> NoCoverPage
           [] OTHER -> BadStatus

\* line 202: df["封面"] = process_urls_multithreaded(df["NeoDB链接"])
AddCovers(df) ==
    IF "NeoDBLianJie" \notin df.cols THEN Raise
    ELSE LET links == CoverLinks([i \in 1..Len(df.rows) |-> Web(df.rows[i].NeoDBLianJie)])
         IN  IF links.raised THEN Raise
             ELSE Return(
                    [cols |-> df.cols \cup {"FengMian"},
                     rows |-> [i \in 1..Len(df.rows) |->
                        [c \in df.cols \cup {"FengMian"} |->
                           IF c = "FengMian" THEN links.value[i] ELSE df.rows[i][c]]]])

\* the ways the body of the try block can end for the frame read from a
\* worksheet: the frame written as CSV, or an exception.  With no row left
\* after the filter, the assignment of the split columns gets a frame of no
\* columns; whether pandas raises ValueError there depends on its version,
\* so both ends are possible
ExportFrameOutcomes(sheet, df, user_date) ==
    LET cleaned == CleanFrame(FilterByDate(df, user_date))
        split == SplitAndDrop(cleaned, sheet)
    IN  IF split.raised THEN {Raise}
        ELSE {AddCovers(split.value)}
             \cup (IF Len(cleaned.rows) = 0 THEN {Raise} ELSE {})

\* one turn of the loop of export_to_csv; read_excel of a worksheet that is
\* not in the file raises ValueError
ExportSheetOutcomes(sheet, file, user_date) ==
    IF sheet \notin DOMAIN file THEN {Raise}
    ELSE ExportFrameOutcomes(sheet, ReadSheet(file[sheet]), user_date)

\* NextSheet with a slip: the try is around the loop, an exception ends it
NextSheetOrStop(idx, raised) == IF raised THEN Len(Categories) + 1 ELSE idx + 1

\* the place in the list of the sheet that follows the sheet at idx, whose
\* turn ended with an exception or not
NextSheet(idx, raised) == idx + 1

\* ---- inputs of the pipeline ----

\* most rows a primary worksheet of the detailed category has
MaxMainRows == 2

FourDigits(n) == <<48 + (n \div 1000), 48 + ((n \div 100) % 10)>> \o TwoDigits(n % 100)

\* a timestamp written as YYYY-MM-DD HH:MM:SS
TimeText(y, m, d, hh, mm, ss) ==
    FourDigits(y) \o <<45>> \o TwoDigits(m) \o <<45>> \o TwoDigits(d) \o <<32>>
    \o TwoDigits(hh) \o <<58>> \o TwoDigits(mm) \o <<58>> \o TwoDigits(ss)

\* the operator types 231026 (after a line that is refused) on 2026-11-03
MainToday == [year |-> 2026, month |-> 11, day |-> 3]
MainLines == {<<50, 51, 49, 48, 50, 54>>, <<50, 51, 49, 48, 50, 120>>}

BeforeCutoff == TimeText(2023, 10, 25, 23, 59, 59)
AtCutoff == TimeText(2023, 10, 26, 0, 0, 0)
BadTime == <<50, 48, 50, 51>>      \* "2023"

\* "a / b / c / d / e / f", and "a<U+1F600> / <U+4E2D>"
SixParts == <<97, 32, 47, 32, 98, 32, 47, 32, 99, 32, 47, 32, 100, 32, 47, 32, 101,
              32, 47, 32, 102>>
EmojiIntro == <<97, 128512, 32, 47, 32, 20013>>

MainPrimaryRich ==
    {[cols |-> {"LianJie", "ChuangJianShiJian"}, rows |-> r] :
        r \in SeqsUpTo([LianJie : {U1, U2}, ChuangJianShiJian : {BeforeCutoff, AtCutoff}],
                       MaxMainRows)}
    \cup {[cols |-> {"LianJie"}, rows |-> <<[LianJie |-> U1]>>],
          [cols |-> {"LianJie", "ChuangJianShiJian"},
           rows |-> <<[LianJie |-> U1, ChuangJianShiJian |-> BadTime],
                      [LianJie |-> U2, ChuangJianShiJian |-> BeforeCutoff]>>],
          [cols |-> {"LianJie", "ChuangJianShiJian"},
           rows |-> <<[LianJie |-> U1, ChuangJianShiJian |-> NaN],
                      [LianJie |-> U2, ChuangJianShiJian |-> AtCutoff]>>]}

MainSecondaryRich ==
    {[cols |-> {"LianJie", "JianJie", "NeoDBLianJie"},
      rows |-> <<[LianJie |-> U1, JianJie |-> AB, NeoDBLianJie |-> N1]>>],
     [cols |-> {"LianJie", "JianJie", "NeoDBLianJie"},
      rows |-> <<[LianJie |-> U1, JianJie |-> SixParts, NeoDBLianJie |-> N1],
                 [LianJie |-> U2, JianJie |-> CC, NeoDBLianJie |-> N2]>>],
     [cols |-> {"LianJie", "JianJie", "NeoDBLianJie"},
      rows |-> <<[LianJie |-> U1, JianJie |-> EmojiIntro, NeoDBLianJie |-> N4],
                 [LianJie |-> U2, JianJie |-> AB, NeoDBLianJie |-> N3]>>],
     [cols |-> {"LianJie", "NeoDBLianJie"},
      rows |-> <<[LianJie |-> U1, NeoDBLianJie |-> N1]>>],
     [cols |-> {"LianJie", "JianJie"},
      rows |-> <<[LianJie |-> U1, JianJie |-> AB]>>]}

MainPrimaryPlain ==
    [cols |-> {"LianJie", "ChuangJianShiJian"},
     rows |-> <<[LianJie |-> U1, ChuangJianShiJian |-> AtCutoff]>>]
MainSecondaryPlain ==
    [cols |-> {"LianJie", "JianJie", "NeoDBLianJie"},
     rows |-> <<[LianJie |-> U1, JianJie |-> AB, NeoDBLianJie |-> N1]>>]

ExportIdle ==
    /\ export_pc = "idle" /\ export_idx = 0 /\ csv_files = <<>> /\ export_log = <<>>

\* main() after the two merges: z1.xlsx and mark.xlsx are written.  One
\* category is detailed, the others hold one matched row each, or have no
\* secondary worksheet
MainInit ==
    /\ \E rich \in CategorySet, p \in MainPrimaryRich \cup {Absent},
          s \in MainSecondaryRich \cup {Absent}, others \in BOOLEAN :
          /\ douban_file = Workbook([c \in CategorySet |->
                                IF c = rich THEN p ELSE MainPrimaryPlain])
          /\ neodb_file = Workbook([c \in CategorySet |->
                                IF c = rich THEN s
                                ELSE IF others THEN MainSecondaryPlain ELSE Absent])
    /\ tags_pc = "start"
    /\ updated_file = NoFile
    /\ rerun_pc = "idle"
    /\ rerun_file = NoFile
    /\ now = MainToday
    /\ date_input = <<>>
    /\ date_pc = "prompt"
    /\ date_obj = NoDate
    /\ export_pc = "loop"
    /\ export_idx = 1
    /\ csv_files = <<>>
    /\ export_log = <<>>

\* user_date = get_user_date_input(), after process_tags has returned
MainPrompt ==
    /\ tags_pc = "done"
    /\ GetUserDateInput(MainLines)

\* one turn of `for sheet in MERGE_GROUPS.keys()`: the try block, and the
\* except clause when it raises
ExportSheet ==
    /\ tags_pc = "done"
    /\ date_pc = "returned"
    /\ export_pc = "loop"
    /\ export_idx \in 1..Len(Categories)
    /\ LET sheet == Categories[export_idx]
       IN  \E res \in ExportSheetOutcomes(sheet, updated_file, date_obj) :
              IF res.raised
              THEN /\ export_log' = Append(export_log, <<sheet, "error">>)
                   /\ export_idx' = NextSheet(export_idx, TRUE)
                   /\ UNCHANGED csv_files
              ELSE /\ csv_files' = [c \in DOMAIN csv_files \cup {sheet} |->
                                       IF c = sheet THEN res.value ELSE csv_files[c]]
                   /\ export_log' = Append(export_log, <<sheet, "saved">>)
                   /\ export_idx' = NextSheet(export_idx, FALSE)
    /\ UNCHANGED export_pc

\* the loop is over: export_to_csv returns
ExportReturn ==
    /\ export_pc = "loop"
    /\ export_idx > Len(Categories)
    /\ export_pc' = "returned"
    /\ UNCHANGED <<export_idx, csv_files, export_log>>

(***************************************************************************)
(* Specifications                                                          *)
(***************************************************************************)

InitMerge == MergeInit /\ TagsIdle /\ DateIdle /\ SplitIdle /\ FetchIdle /\ ExportIdle

NextMerge == MergeExcelSheets /\ UNCHANGED <<tagsVars, dateVars, splitVars, fetchVars, exportVars>>

SpecMerge == InitMerge /\ [][NextMerge]_vars

InitTags == TagsInit /\ MergeIdle /\ DateIdle /\ SplitIdle /\ FetchIdle /\ ExportIdle

NextTags ==
    \/ ProcessTags /\ UNCHANGED <<mergeVars, dateVars, splitVars, fetchVars, exportVars>>
    \/ ProcessTagsAgain /\ UNCHANGED <<mergeVars, dateVars, splitVars, fetchVars, exportVars>>

SpecTags == InitTags /\ [][NextTags]_vars

InitDate == DateInit /\ MergeIdle /\ TagsIdle /\ SplitIdle /\ FetchIdle /\ ExportIdle

NextDate == GetUserDateInput(Lines) /\ UNCHANGED <<mergeVars, tagsVars, splitVars, fetchVars, exportVars>>

SpecDate == InitDate /\ [][NextDate]_vars

InitSplit == SplitInit /\ MergeIdle /\ TagsIdle /\ DateIdle /\ FetchIdle /\ ExportIdle

NextSplit == SplitIntroRow /\ UNCHANGED <<mergeVars, tagsVars, dateVars, fetchVars, exportVars>>

SpecSplit == InitSplit /\ [][NextSplit]_vars

InitFetch == FetchInit /\ MergeIdle /\ TagsIdle /\ DateIdle /\ SplitIdle /\ ExportIdle

NextFetch ==
    \/ Submit /\ UNCHANGED <<mergeVars, tagsVars, dateVars, splitVars, exportVars>>
    \/ AllSubmitted /\ UNCHANGED <<mergeVars, tagsVars, dateVars, splitVars, exportVars>>
    \/ (\E i \in 1..MaxUrls : WorkerStart(i))
          /\ UNCHANGED <<mergeVars, tagsVars, dateVars, splitVars, exportVars>>
    \/ (\E i \in 1..MaxUrls : WorkerFinish(i))
          /\ UNCHANGED <<mergeVars, tagsVars, dateVars, splitVars, exportVars>>
    \/ Collect /\ UNCHANGED <<mergeVars, tagsVars, dateVars, splitVars, exportVars>>
    \/ ReturnLinks /\ UNCHANGED <<mergeVars, tagsVars, dateVars, splitVars, exportVars>>
    \/ Reraise /\ UNCHANGED <<mergeVars, tagsVars, dateVars, splitVars, exportVars>>

SpecFetch == InitFetch /\ [][NextFetch]_vars

InitMain == MainInit /\ MergeIdle /\ SplitIdle /\ FetchIdle

NextMain ==
    \/ ProcessTags /\ UNCHANGED <<mergeVars, dateVars, splitVars, fetchVars, exportVars>>
    \/ MainPrompt /\ UNCHANGED <<mergeVars, tagsVars, splitVars, fetchVars, exportVars>>
    \/ ExportSheet /\ UNCHANGED <<mergeVars, tagsVars, dateVars, splitVars, fetchVars>>
    \/ ExportReturn /\ UNCHANGED <<mergeVars, tagsVars, dateVars, splitVars, fetchVars>>

SpecMain == InitMain /\ [][NextMain]_vars

(***************************************************************************)
(* Properties                                                              *)
(***************************************************************************)

\* the rows worksheet `name` has in the merger's input, 0 when it is not there
RowCount(name) == IF name \in DOMAIN sheets THEN Len(sheets[name].rows) ELSE 0

\* the rows of the worksheets listed before place j of a status list
RECURSIVE RowsBefore(_, _)
RowsBefore(list, j) ==
    IF j <= 1 THEN 0 ELSE RowsBefore(list, j - 1) + RowCount(list[j - 1])

\* C1: when merge_excel_sheets is done, every category with at least one of
\* its status worksheets in the input has its worksheet in the output (a
\* workbook holds one worksheet per name); the worksheet has as many rows
\* as those status worksheets together, in the order of the category's
\* status list, and every row is the source row with Status set to the name
\* of the worksheet it came from.
C1_MergedCategory ==
    merge_pc = "done" =>
        \A g \in DOMAIN MERGE_GROUPS :
            LET list == MERGE_GROUPS[g]
            IN  (\E j \in 1..Len(list) : list[j] \in DOMAIN sheets) =>
                  /\ g \in DOMAIN merge_out
                  /\ Len(merge_out[g].rows) = RowsBefore(list, Len(list) + 1)
                  /\ \A j \in 1..Len(list) : \A r \in 1..RowCount(list[j]) :
                        LET row == merge_out[g].rows[RowsBefore(list, j) + r]
                        IN  /\ row.Status = list[j]
                            /\ row.LianJie = sheets[list[j]].rows[r].LianJie

\* C1 happens: two worksheets of one category, listed in the other order,
\* one of them with a Status column of its own, are merged.
C1_Witness ==
    /\ merge_pc = "done"
    /\ DOMAIN sheets = {"XiangKan", "KanGuo", "QiTa"}
    /\ Len(sheets["XiangKan"].rows) = 2 /\ "Status" \in sheets["XiangKan"].cols
    /\ Len(sheets["KanGuo"].rows) = 1
    /\ Len(merge_out["KanGuo"].rows) = 3

\* the largest of a non-empty set of numbers
Last(S) == CHOOSE x \in S : \A y \in S : y <= x

\* C2: in every worksheet process_tags writes, for every transferable field
\* that is a column of the secondary worksheet, row i is primary row i, and
\* its field holds the value of the last secondary row with the same key
\* (keys compared as text), or is empty when no secondary row has the key,
\* whatever the primary row held in that field.
C2_LastSecondaryValue ==
    tags_pc = "done" =>
        \A c \in DOMAIN updated_file :
            LET primary == ReadSheet(douban_file[c])
                secondary == ReadSheet(neodb_file[c])
                out == updated_file[c]
            IN  \A f \in InList(COLUMN_MAPPINGS) :
                  f \in secondary.cols =>
                    /\ Len(out.rows) = Len(primary.rows)
                    /\ f \in out.cols
                    /\ \A i \in 1..Len(primary.rows) :
                          LET k == Str(primary.rows[i].LianJie)
                              same == {j \in 1..Len(secondary.rows) :
                                          Str(secondary.rows[j].LianJie) = k}
                          IN  /\ out.rows[i].LianJie = k
                              /\ out.rows[i][f] = IF same = {} THEN NaN
                                                  ELSE secondary.rows[Last(same)][f]

\* C2 happens: a key the secondary worksheet has twice with different
\* values, a primary row of that key with a value of its own, and a primary
\* row whose key the secondary worksheet lacks.
C2_Witness ==
    /\ tags_pc = "done"
    /\ "DuGuo" \in DOMAIN updated_file
    /\ neodb_file["DuGuo"].rows = <<[LianJie |-> U1, BiaoQian |-> T1],
                                    [LianJie |-> U1, BiaoQian |-> T2]>>
    /\ douban_file["DuGuo"].rows = <<[LianJie |-> U1, BiaoQian |-> Old],
                                     [LianJie |-> U2, BiaoQian |-> Old]>>
    /\ updated_file["DuGuo"].rows[1].BiaoQian = T2
    /\ updated_file["DuGuo"].rows[2].BiaoQian = NaN

\* a worksheet of a workbook, an absent one as an empty table
SheetOrEmpty(file, c) == IF c \in DOMAIN file THEN file[c] ELSE EmptyFrame

\* C3: process_tags raises nothing; a category whose worksheet is absent
\* from the primary or from the secondary workbook gets no output worksheet,
\* and every category whose two worksheets are there, have rows and have the
\* key column is written.
C3_AbsentSheetIsEmptyTable ==
    tags_pc # "start" =>
        /\ tags_pc = "done"
        /\ \A c \in CategorySet :
              /\ (c \notin DOMAIN douban_file \/ c \notin DOMAIN neodb_file)
                    => c \notin DOMAIN updated_file
              /\ (/\ ~IsEmpty(SheetOrEmpty(douban_file, c))
                  /\ ~IsEmpty(SheetOrEmpty(neodb_file, c))
                  /\ "LianJie" \in SheetOrEmpty(douban_file, c).cols
                  /\ "LianJie" \in SheetOrEmpty(neodb_file, c).cols)
                    => c \in DOMAIN updated_file

\* C9: a second process_tags, over the first one's output and the same
\* secondary workbook, ends like the first and writes the same workbook.
C9_SecondRunSameOutput ==
    (tags_pc = "done" /\ rerun_pc # "start") =>
        (rerun_pc = "done" /\ rerun_file = updated_file)

\* the number a line's two digits at places i, i + 1 stand for
TwoAt(line, i) == (line[i] - 48) * 10 + (line[i + 1] - 48)

\* the date y-m-d is more than one year after today
MoreThanAYearAhead(y, m, d, today) ==
    \/ y > today.year + 1
    \/ y = today.year + 1 /\ m > today.month
    \/ y = today.year + 1 /\ m = today.month /\ d > today.day

\* C6 as claimed: the date returned for YYMMDD has month MM and day DD; its
\* year is century + YY, unless that date is more than one year after
\* today, and then century + YY - 100.
C6_CenturyByDate ==
    date_pc = "returned" =>
        LET year == (now.year \div 100) * 100 + TwoAt(date_input, 1)
            month == TwoAt(date_input, 3)
            day == TwoAt(date_input, 5)
        IN  date_obj = [year |-> IF MoreThanAYearAhead(year, month, day, now)
                                 THEN year - 100 ELSE year,
                        month |-> month, day |-> day]

\* C6 amended: the date returned for YYMMDD has month MM and day DD; its
\* year is century + YY, unless that year is greater than the current year
\* plus one, and then century + YY - 100 (years are compared, whatever the
\* month and day of today); 231026 typed in 2022..2099 gives 2023-10-26.
C6_CenturyByYear ==
    date_pc = "returned" =>
        LET year == (now.year \div 100) * 100 + TwoAt(date_input, 1)
        IN  /\ Len(date_input) = 6
            /\ date_obj = [year |-> IF year > now.year + 1 THEN year - 100 ELSE year,
                           month |-> TwoAt(date_input, 3),
                           day |-> TwoAt(date_input, 5)]
            /\ (date_input = <<50, 51, 49, 48, 50, 54>> /\ now.year \in 2022..2099)
                  => date_obj = [year |-> 2023, month |-> 10, day |-> 26]

\* C6 happens: 271231 typed on 2026-11-03 gives 2027-12-31, a date more
\* than one year after today in a year that is not.
C6_Witness ==
    /\ date_pc = "returned"
    /\ now = [year |-> 2026, month |-> 11, day |-> 3]
    /\ date_input = <<50, 55, 49, 50, 51, 49>>
    /\ date_obj = [year |-> 2027, month |-> 12, day |-> 31]

\* the columns a category's description is split into, as the claim counts them
ExpectedColumns(sheet) ==
    CASE sheet = "TingGuo" -> 2 [] sheet = "DuGuo" -> 3
      [] sheet = "WanGuo" -> 3 [] sheet = "KanGuo" -> 5

\* C7: a description written from k parts joined by " / " is split into
\* exactly N columns, N the category's count: column i holds part i for
\* i <= min(k, N), the columns after the k-th are empty, the parts after the
\* N-th are dropped.
C7_PadAndTruncate ==
    (split_pc = "done" /\ intro_parts # <<>>) =>
        LET N == ExpectedColumns(split_sheet)
            k == Len(intro_parts)
        IN  /\ ~split_cols.raised
            /\ Len(split_cols.value) = N
            /\ \A i \in 1..N :
                  split_cols.value[i] = IF i <= k THEN intro_parts[i] ELSE NaN

\* C7 happens: a book's description of five parts is split.
C7_Witness ==
    /\ split_pc = "done"
    /\ split_sheet = "DuGuo"
    /\ Len(intro_parts) = 5
    /\ Len(split_cols.value) = 3

\* what the fetch of a url gives: the address the page names for its cover
\* (on neodb.social when it starts with "/"), or nothing
ExpectedLink(resp) ==
    CASE resp = CoverPage -> <<104, 116, 116, 112, 115, 58, 47, 47, 110, 101, 111, 100,
                               98, 46, 115, 111, 99, 105, 97, 108>> \o RelSrc
      [] resp = AbsCoverPage -> AbsSrc
      [] resp = EmptySrcPage -> <<>>
      [] OTHER -> NaN

\* C4: the list process_urls_multithreaded returns has one entry per url,
\* the i-th the outcome of the i-th url's fetch: empty where the fetch
\* failed, the cover's address where it succeeded, whatever the order the
\* workers finished in.
C4_ResultsInSubmissionOrder ==
    fetch_pc = "returned" =>
        /\ Len(cover_links) = Len(responses)
        /\ \A i \in 1..Len(responses) : cover_links[i] = ExpectedLink(responses[i])
        /\ Cardinality({i \in 1..Len(responses) : cover_links[i] # NaN})
              = Cardinality({i \in 1..Len(responses) : responses[i].kind = "img"})
        /\ Cardinality({i \in 1..Len(responses) : cover_links[i] = NaN})
              = Cardinality({i \in 1..Len(responses) : responses[i].kind # "img"})

\* C4 happens: the last url's fetch finishes first, the first url's fails.
C4_Witness ==
    /\ fetch_pc = "returned"
    /\ responses = <<NetError, CoverPage, CoverPage>>
    /\ finish_order = <<3, 1, 2>>

\* C5: the batch is never aborted, and every row no cover can be obtained
\* for has an empty result.
C5_BatchNeverAborted ==
    /\ fetch_pc \notin {"raising", "raised"}
    /\ fetch_pc = "returned" =>
          \A i \in 1..Len(responses) :
              (responses[i].kind # "img" \/ ~IsStr(responses[i].src))
                  => cover_links[i] = NaN

\* C8: when export_to_csv returns it has gone through the four categories
\* in order; every category whose turn raised was passed over, and the CSV
\* of every other category is written, with what its turn made.
C8_EveryCategoryHasItsTurn ==
    export_pc = "returned" =>
        /\ Len(export_log) = Len(Categories)
        /\ \A i \in 1..Len(Categories) :
              LET c == Categories[i]
                  ends == ExportSheetOutcomes(c, updated_file, date_obj)
              IN  /\ export_log[i][1] = c
                  /\ IF export_log[i][2] = "error"
                     THEN Raise \in ends /\ c \notin DOMAIN csv_files
                     ELSE /\ c \in DOMAIN csv_files
                          /\ Return(csv_files[c]) \in ends

\* C8 happens: the second category raises, the others are written.
C8_Witness ==
    /\ export_pc = "returned"
    /\ export_log = <<<<"KanGuo", "saved">>, <<"TingGuo", "error">>,
                      <<"WanGuo", "saved">>, <<"DuGuo", "saved">>>>
    /\ DOMAIN csv_files = {"KanGuo", "WanGuo", "DuGuo"}

\* a frame without its row i
WithoutRow(df, i) ==
    [cols |-> df.cols,
     rows |-> SubSeq(df.rows, 1, i - 1) \o SubSeq(df.rows, i + 1, Len(df.rows))]

\* row i of the reconciled worksheet c has a key no secondary row has, and
\* was created on or after the cutoff; without it the worksheet is exported
UnmatchedRow(c, i) ==
    LET df == ReadSheet(updated_file[c])
        secondary == neodb_file[c]
    IN  /\ \A j \in 1..Len(secondary.rows) :
              Str(secondary.rows[j].LianJie) # df.rows[i].LianJie
        /\ "ChuangJianShiJian" \in df.cols
        /\ IsStr(df.rows[i].ChuangJianShiJian)
        /\ ~ParseTime(df.rows[i].ChuangJianShiJian).raised
        /\ NotBefore(ParseTime(df.rows[i].ChuangJianShiJian).value, date_obj)
        /\ Raise \notin ExportFrameOutcomes(c, WithoutRow(df, i), date_obj)

\* C10: a reconciled row whose key has no match in the secondary workbook
\* and whose creation time is not before the cutoff is exported: the CSV of
\* its category is written, and holds the row with its structured columns
\* and its cover empty.
C10_UnmatchedRowExported ==
    export_pc = "returned" =>
        \A c \in DOMAIN updated_file :
            \A i \in 1..Len(updated_file[c].rows) :
                UnmatchedRow(c, i) =>
                    /\ c \in DOMAIN csv_files
                    /\ \E r \in 1..Len(csv_files[c].rows) :
                          LET row == csv_files[c].rows[r]
                          IN  /\ row.LianJie = updated_file[c].rows[i].LianJie
                              /\ \A x \in InList(IntroColumns(c)) : row[x] = NaN
                              /\ row.FengMian = NaN

====
